---- MODULE Spec2Model ----
(***************************************************************************)
(* A model of the Ethereum data collectors:                                *)
(*   - data-collector/collector.py     (variant "hub": fan-out to five     *)
(*     upstream sources, one Event Hub envelope per cycle, 10 s loop)      *)
(*   - data-collector/collector_new.py (variant "kusto": sequential        *)
(*     collect/ingest stages, 300 s loop)                                  *)
(* Python values are modelled as records: None is [none |-> TRUE], an     *)
(* exception object is [exc |-> <message>], a dict is a record.            *)
(***************************************************************************)
EXTENDS Integers, Sequences, FiniteSets, TLC

VARIABLES
    variant,          \* "hub" (collector.py) or "kusto" (collector_new.py)
    config,           \* the configuration the process was started with
    pc,               \* control location of main / the collection loop
    cycle,            \* number of the tick in progress (saturates past MaxCycles)
    inProgress,       \* ticks begun whose pacing/backoff sleep has not finished
    session,          \* self.session: "none" | "open" | "closed"
    producer_client,  \* self.producer_client: "none" | "open" | "closed"
    results,          \* asyncio.gather's slots, one per task of fetch_ethereum_data
    data,             \* combined_data of the tick (hub) / the stage's rows (kusto)
    now,              \* hub: the last reading of time.time(); kusto: the seconds the cycle took
    start_time,       \* run_collection_loop's local start_time
    processing_time,  \* run_collection_loop's local processing_time
    sleep_time,       \* the argument of the asyncio.sleep in progress
    steps,            \* the steps the tick in progress has taken, in order
    sinkBusy,         \* calls of the sink (send_batch / kusto execute) in flight
    sendCalls,        \* calls of the sink made by the tick in progress
    sendLog,          \* per tracked record: the outcomes of its deliveries
    batch,            \* the list of events handed to send_batch, None outside a delivery
    contract,         \* kusto: index of the ERC20 contract being collected
    ingested,         \* kusto: <<cycle, table>> pairs ingested (tracked cycles)
    strhash,          \* this process's str hash (keyed by a per-process seed)
    keyLog,           \* <<timestamp, partition key>> pairs computed so far
    call,             \* a client called on its own: its input and what has come of it
    monitor,          \* quality_monitor.py: where run_quality_checks is and what it has so far
    pool              \* the session's TCPConnector: connections checked out, and by what

vars == <<variant, config, pc, cycle, inProgress, session, producer_client,
          results, data, now, start_time, processing_time, sleep_time, steps,
          sinkBusy, sendCalls, sendLog, batch, contract, ingested,
          strhash, keyLog, call, monitor, pool>>

----------------------------------------------------------------------------
\* Bounds of the exploration.

\* Ticks whose records are tracked one by one; later ticks share one number.
MaxCycles == 2
\* The longest the work of a tick (collection and delivery) takes, in seconds.
MaxWork == 12
\* How many required configuration keys may be absent at start.
MaxMissing == 1
\* How many ERC20 contracts config["erc20_contracts"] lists.
MaxContracts == 1
\* hash() of a str ranges over -HashMax .. HashMax.
HashMax == 1
\* The oldest latest-row the freshness query returns, in minutes.
MaxAge == 7
\* The most rows (or the highest count) a quality query returns.
MaxRows == 2
\* most responses left unreleased at a time that the exploration follows
MaxUnreleased == 4

\* Program constants.
IntervalFast == 10
BackoffFast == 5
IntervalSlow == 300
BackoffSlow == 60
BlockCount == 5
KeyBuckets == 10
FreshMinutes == 5

Tracked == 1..MaxCycles
Timestamps == 1..(MaxCycles + 1)
WorkTimes == {0, MaxWork \div 2, MaxWork - 2, MaxWork}
Max(a, b) == IF a >= b THEN a ELSE b
Min(a, b) == IF a <= b THEN a ELSE b

----------------------------------------------------------------------------
\* Python values.

NoneVal == [none |-> TRUE]
\* quality_monitor.py before run_quality_checks is called
IdleMonitor == [at |-> "idle"]
\* the connector of a session no request has gone through yet
IdlePool == [at |-> "idle", state |-> [i \in 1..5 |-> "done"],
             inuse |-> 0, unreleased |-> 0]
Running == [running |-> TRUE]
Raise(msg) == [exc |-> msg]
\* isinstance(r, Exception)
IsException(r) == "exc" \in DOMAIN r
IsNone(r) == "none" \in DOMAIN r
\* dict.get(key, default)
Get(d, k, default) == IF k \in DOMAIN d THEN d[k] ELSE default
EmptyDict == [k \in {} |-> 0]

DigitStr == <<"0", "1", "2", "3", "4", "5", "6", "7", "8", "9">>
\* str(n) / f"{n}" of a non-negative int
RECURSIVE IntStr(_)
IntStr(n) == IF n < 10 THEN DigitStr[n + 1]
             ELSE IntStr(n \div 10) \o DigitStr[(n % 10) + 1]

\* int(s, base) of a digit string, given as the sequence of its digits' values
RECURSIVE ParseInt(_, _)
ParseInt(s, base) ==
    IF Len(s) = 0 THEN 0
    ELSE ParseInt(SubSeq(s, 1, Len(s) - 1), base) * base + s[Len(s)]

\* f"{n:x}" as the sequence of hex digit values (the upstream echoes it back)
RECURSIVE HexDigits(_)
HexDigits(n) == IF n < 16 THEN <<n>> ELSE Append(HexDigits(n \div 16), n % 16)

----------------------------------------------------------------------------
\* Upstream responses.  neterr: session.get raised (timeout, unreachable).

Http(status, body) == [neterr |-> FALSE, status |-> status, body |-> body]
NetErr == [neterr |-> TRUE, status |-> 0, body |-> EmptyDict]
NetErrMsg == "Cannot connect to host"
\* A body that is not JSON (an HTML error page): response.json() raises.
NotJson == [notjson |-> TRUE]
IsJson(body) == "notjson" \notin DOMAIN body
NotJsonMsg == "unexpected mimetype"

PriceBody == [ethereum |-> [usd |-> 3000, btc |-> 5, usd_market_cap |-> 360,
                            usd_24h_vol |-> 12, usd_24h_change |-> 2]]
PriceResponses == {Http(200, PriceBody), Http(500, EmptyDict)}

\* collector.py: fetch_current_price
fetch_current_price(response, t) ==
    IF response.neterr THEN Raise(NetErrMsg)
    ELSE IF response.status = 200 THEN
        LET body == response.body IN
        IF ~IsJson(body) THEN Raise(NotJsonMsg)
        ELSE IF "ethereum" \notin DOMAIN body THEN Raise("'ethereum'")
        ELSE LET e == body.ethereum IN
             IF "usd" \notin DOMAIN e THEN Raise("'usd'")
             ELSE IF "btc" \notin DOMAIN e THEN Raise("'btc'")
             ELSE IF "usd_market_cap" \notin DOMAIN e THEN Raise("'usd_market_cap'")
             ELSE IF "usd_24h_vol" \notin DOMAIN e THEN Raise("'usd_24h_vol'")
             ELSE IF "usd_24h_change" \notin DOMAIN e THEN Raise("'usd_24h_change'")
             ELSE [price_usd |-> e.usd, price_btc |-> e.btc,
                   market_cap |-> e.usd_market_cap, volume_24h |-> e.usd_24h_vol,
                   change_24h |-> e.usd_24h_change, timestamp |-> t]
    ELSE Raise("Price API error: " \o IntStr(response.status))

SupplyBody == [status |-> "1", result |-> "120"]
EthPriceBody == [status |-> "1", result |-> [ethusd |-> "3000"]]
BlockNumberBody == [result |-> <<1, 2>>]   \* "0x12"
StatsResponses ==
    { <<Http(200, SupplyBody), Http(502, EmptyDict), Http(200, BlockNumberBody)>>,
      <<Http(200, SupplyBody), NetErr, Http(200, BlockNumberBody)>> }

\* Mutation of fetch_network_stats: a sub-call's bad status fails the source.
fetch_network_stats_Strict(responses, t) ==
    IF \E i \in 1..3 : responses[i].neterr THEN Raise(NetErrMsg)
    ELSE IF \E i \in 1..3 : responses[i].status # 200
         THEN Raise("Status error")
    ELSE IF \E i \in 1..3 : ~IsJson(responses[i].body) THEN Raise(NotJsonMsg)
    ELSE [total_supply |-> Get(responses[1].body, "result", "0"),
          eth_price |-> Get(responses[2].body, "result", EmptyDict),
          latest_block |-> IF Len(Get(responses[3].body, "result", <<>>)) > 0
                           THEN ParseInt(responses[3].body.result, 16) ELSE 0,
          timestamp |-> t]

\* collector.py: fetch_network_stats.  asyncio.gather without
\* return_exceptions re-raises the failure of a sub-call.
fetch_network_stats(responses, t) ==
    IF \E i \in 1..3 : responses[i].neterr THEN Raise(NetErrMsg)
    ELSE IF \E i \in 1..3 : responses[i].status = 200 /\ ~IsJson(responses[i].body)
         THEN Raise(NotJsonMsg)
    ELSE LET res == [i \in 1..3 |->
                        IF responses[i].status = 200 THEN responses[i].body
                        ELSE [error |-> "Status " \o IntStr(responses[i].status)]]
             blk == Get(res[3], "result", <<>>)
         IN [total_supply |-> Get(res[1], "result", "0"),
             eth_price |-> Get(res[2], "result", EmptyDict),
             latest_block |-> IF Len(blk) > 0 THEN ParseInt(blk, 16) ELSE 0,
             timestamp |-> t]

\* What the explorer answers for eth_getBlockByNumber of block n.
BlockBody(n) ==
    [result |-> [number |-> HexDigits(n), hash |-> "0xh" \o IntStr(n),
                 timestamp |-> <<6, 5>>, transactions |-> <<"tx1", "tx2">>,
                 gasUsed |-> <<1, 0>>, gasLimit |-> <<1, 14>>,
                 miner |-> "0xminer", size |-> <<2, 0>>]]
\* A per-block sub-request's answer: "ok" | "status" | "empty" | "neterr"
BlockResponse(kind, n) ==
    CASE kind = "ok" -> Http(200, BlockBody(n))
      [] kind = "status" -> Http(503, EmptyDict)
      [] kind = "empty" -> Http(200, [result |-> NoneVal])
      [] OTHER -> NetErr
BlockInputs ==
    { [latest |-> Http(200, BlockNumberBody), kinds |-> <<"ok", "ok", "ok", "status", "ok">>],
      [latest |-> Http(500, EmptyDict), kinds |-> <<"ok", "ok", "ok", "ok", "ok">>] }

\* the block dict appended for one good answer
DecodeBlock(block) ==
    [number |-> ParseInt(block.number, 16), hash |-> block.hash,
     timestamp |-> ParseInt(block.timestamp, 16),
     transaction_count |-> Len(Get(block, "transactions", <<>>)),
     gas_used |-> ParseInt(block.gasUsed, 16),
     gas_limit |-> ParseInt(block.gasLimit, 16),
     miner |-> block.miner, size |-> ParseInt(block.size, 16)]

\* the loop "for i in range(count)" from iteration i on, blocks so far in acc
RECURSIVE BlockLoop(_, _, _, _, _)
BlockLoop(latest_block, kinds, i, count, acc) ==
    IF i >= count THEN [blocks |-> acc]
    ELSE LET block_response == BlockResponse(kinds[i + 1], latest_block - i) IN
         IF block_response.neterr THEN Raise(NetErrMsg)
         ELSE IF block_response.status = 200
                 /\ ~IsNone(Get(block_response.body, "result", NoneVal))
              THEN BlockLoop(latest_block, kinds, i + 1, count,
                             Append(acc, DecodeBlock(block_response.body.result)))
              ELSE BlockLoop(latest_block, kinds, i + 1, count, acc)

\* collector.py: fetch_recent_blocks (the list it returns is the blocks field)
fetch_recent_blocks(input, count) ==
    IF input.latest.neterr THEN Raise(NetErrMsg)
    ELSE IF input.latest.status # 200
         THEN Raise("Block number API error: " \o IntStr(input.latest.status))
    ELSE IF ~IsJson(input.latest.body) THEN Raise(NotJsonMsg)
    ELSE IF "result" \notin DOMAIN input.latest.body THEN Raise("'result'")
    ELSE BlockLoop(ParseInt(input.latest.body.result, 16), input.kinds, 0, count, <<>>)

GasBody == [result |-> [SafeGasPrice |-> <<1, 0>>, StandardGasPrice |-> <<1, 5>>,
                        FastGasPrice |-> <<2, 5>>]]
GasResponses == {Http(200, GasBody), Http(500, EmptyDict)}

\* collector.py: fetch_gas_tracker
fetch_gas_tracker(response, t) ==
    IF response.neterr THEN Raise(NetErrMsg)
    ELSE IF response.status = 200 /\ ~IsJson(response.body) THEN Raise(NotJsonMsg)
    ELSE IF response.status = 200 THEN
        LET result == Get(response.body, "result", EmptyDict) IN
        [safe_gas_price |-> ParseInt(Get(result, "SafeGasPrice", <<0>>), 10),
         standard_gas_price |-> ParseInt(Get(result, "StandardGasPrice", <<0>>), 10),
         fast_gas_price |-> ParseInt(Get(result, "FastGasPrice", <<0>>), 10),
         timestamp |-> t]
    ELSE Raise("Gas tracker API error: " \o IntStr(response.status))

DefiResponses == {Http(200, [total |-> 77]), NetErr}

\* Mutation of fetch_defi_metrics: the failure is not swallowed.
fetch_defi_metrics_Propagates(response, t) ==
    IF response.neterr THEN Raise(NetErrMsg)
    ELSE IF response.status = 200 /\ ~IsJson(response.body) THEN Raise(NotJsonMsg)
    ELSE IF response.status = 200
         THEN [total_value_locked |-> Get(response.body, "total", 0), timestamp |-> t]
         ELSE Raise("Status " \o IntStr(response.status))

\* collector.py: fetch_defi_metrics
fetch_defi_metrics(response, t) ==
    IF response.neterr THEN [total_value_locked |-> 0, error |-> NetErrMsg]
    ELSE IF response.status = 200 /\ ~IsJson(response.body)
         THEN [total_value_locked |-> 0, error |-> NotJsonMsg]
    ELSE IF response.status = 200
         THEN [total_value_locked |-> Get(response.body, "total", 0), timestamp |-> t]
         ELSE [total_value_locked |-> 0,
               error |-> "Status " \o IntStr(response.status)]

----------------------------------------------------------------------------
\* collector_new.py: the clients of the "kusto" variant.  They do not look at
\* the status; only a body that is not JSON makes response.json() raise.

KustoPriceResponses == {Http(200, PriceBody), Http(500, NotJson), NetErr}
KustoGasResponses == {Http(200, GasBody), Http(500, NotJson)}
LogsBody == [result |-> <<[transactionHash |-> "0xt", blockNumber |-> <<1, 1>>]>>]
KustoLogResponses == {Http(200, LogsBody), Http(200, [result |-> <<>>]), NetErr}

\* collector_new.py: collect_eth_price_data
collect_eth_price_data(response, t) ==
    IF response.neterr THEN Raise(NetErrMsg)
    ELSE IF ~IsJson(response.body) THEN Raise(NotJsonMsg)
    ELSE LET body == response.body IN
         IF "ethereum" \notin DOMAIN body THEN Raise("'ethereum'")
         ELSE LET e == body.ethereum IN
              IF "usd" \notin DOMAIN e THEN Raise("'usd'")
              ELSE IF "usd_market_cap" \notin DOMAIN e THEN Raise("'usd_market_cap'")
              ELSE IF "usd_24h_vol" \notin DOMAIN e THEN Raise("'usd_24h_vol'")
              ELSE IF "usd_24h_change" \notin DOMAIN e THEN Raise("'usd_24h_change'")
              ELSE [timestamp |-> t, price_usd |-> e.usd,
                    market_cap |-> e.usd_market_cap, volume_24h |-> e.usd_24h_vol,
                    change_24h |-> e.usd_24h_change]

\* collector_new.py: collect_gas_data; the api key is read before the request
collect_gas_data(response, t, keys) ==
    IF "etherscan.api_key" \notin keys THEN Raise("'etherscan'")
    ELSE IF response.neterr THEN Raise(NetErrMsg)
    ELSE IF ~IsJson(response.body) THEN Raise(NotJsonMsg)
    ELSE IF "result" \notin DOMAIN response.body THEN Raise("'result'")
    ELSE LET r == response.body.result IN
         IF "SafeGasPrice" \notin DOMAIN r THEN Raise("'SafeGasPrice'")
         ELSE IF "StandardGasPrice" \notin DOMAIN r THEN Raise("'StandardGasPrice'")
         ELSE IF "FastGasPrice" \notin DOMAIN r THEN Raise("'FastGasPrice'")
         ELSE [timestamp |-> t,
               safe_gas_price |-> ParseInt(r.SafeGasPrice, 10),
               standard_gas_price |-> ParseInt(r.StandardGasPrice, 10),
               fast_gas_price |-> ParseInt(r.FastGasPrice, 10)]

\* collector_new.py: collect_erc20_transfers (get_latest_block, then the logs)
collect_erc20_transfers(response, t, keys) ==
    IF "etherscan.api_key" \notin keys THEN Raise("'etherscan'")
    ELSE IF response.neterr THEN Raise(NetErrMsg)
    ELSE IF ~IsJson(response.body) THEN Raise(NotJsonMsg)
    ELSE LET logs == Get(response.body, "result", <<>>) IN
         [transfers |-> [j \in 1..Len(logs) |->
                            [timestamp |-> t,
                             transaction_hash |-> logs[j].transactionHash,
                             block_number |-> ParseInt(logs[j].blockNumber, 16)]]]

----------------------------------------------------------------------------
\* Configuration.

HubKeys == {"event_hub.namespace", "event_hub.name", "apis.etherscan_key"}
KustoKeys == {"config.json", "kusto.cluster_uri", "kusto.database", "etherscan.api_key"}
RequiredKeys(v) == IF v = "hub" THEN HubKeys ELSE KustoKeys

\* collector.py: the module-level config (os.getenv gives None for an unset
\* variable); collector_new.py: the config.json that __init__ loads.
Configs(v) ==
    { [keys |-> ks, mode |-> m, contracts |-> n,
       interval |-> IF v = "hub" THEN IntervalFast ELSE IntervalSlow,
       backoff |-> IF v = "hub" THEN BackoffFast ELSE BackoffSlow] :
        ks \in {k \in SUBSET RequiredKeys(v) :
                   Cardinality(RequiredKeys(v) \ k) <= MaxMissing},
        m \in IF v = "hub" THEN {"continuous"} ELSE {"continuous", "single"},
        n \in IF v = "hub" THEN {0} ELSE 0..MaxContracts }

----------------------------------------------------------------------------
\* The delivery envelope of collector.py.

HashVals == (-HashMax)..HashMax
HashFunctions == [Timestamps -> HashVals]
\* str(hash(data["timestamp"]) % 10)
PartitionKey(h, ts) == IntStr(h[ts] % KeyBuckets)
\* setup_eventhouse.py: the EventType values the update policies filter on
PolicyEventTypes == {"EthereumPrice", "GasPrice"}
\* json.dumps
json_dumps(d) == [json |-> d]
EventData(d, h) ==
    [body |-> json_dumps(d),
     properties |-> [source |-> "ethereum_collector", version |-> "1.0",
                     data_type |-> "ethereum_metrics"],
     partition_key |-> PartitionKey(h, d.timestamp)]

\* fetch_ethereum_data: the slot of a gathered result
Slot(r) == IF ~IsException(r) THEN r ELSE NoneVal
\* Mutation of Errors: only the first failure is reported.
Errors_FirstOnly(res) ==
    LET failed == SelectSeq(res, IsException)
    IN IF Len(failed) = 0 THEN <<>> ELSE <<failed[1].exc>>
\* fetch_ethereum_data: [str(r) for r in results if isinstance(r, Exception)]
Errors(res) ==
    LET failed == SelectSeq(res, IsException)
    IN [j \in 1..Len(failed) |-> failed[j].exc]
\* fetch_ethereum_data: combined_data
CombinedData(res, t) ==
    [timestamp |-> t, data_version |-> "1.0", source |-> "ethereum_collector",
     price_data |-> Slot(res[1]), network_stats |-> Slot(res[2]),
     recent_blocks |-> Slot(res[3]), gas_data |-> Slot(res[4]),
     defi_metrics |-> Slot(res[5]), errors |-> Errors(res)]

\* What task i of fetch_ethereum_data may settle with in the cycle stamped t.
TaskOutcomes(i, t) ==
    CASE i = 1 -> {fetch_current_price(r, t) : r \in PriceResponses}
      [] i = 2 -> {fetch_network_stats(r, t) : r \in StatsResponses}
      [] i = 3 -> {fetch_recent_blocks(r, BlockCount) : r \in BlockInputs}
      [] i = 4 -> {fetch_gas_tracker(r, t) : r \in GasResponses}
      [] OTHER -> {fetch_defi_metrics(r, t) : r \in DefiResponses}

NoTasks == <<>>
AllRunning == [i \in 1..5 |-> Running]
NoLog == [k \in Tracked |-> <<>>]
Logged(log, ts, outcome) ==
    IF ts \in Tracked THEN [log EXCEPT ![ts] = Append(@, outcome)] ELSE log
\* One process's hash function in the exploration of the loops.
LoopHash == [t \in Timestamps |-> IF t % 2 = 0 THEN HashMax ELSE -HashMax]

----------------------------------------------------------------------------
\* The state after the interpreter has loaded the module, before main runs.

Init ==
    /\ variant \in {"hub", "kusto"}
    /\ config \in Configs(variant)
    /\ pc = "main"
    /\ cycle = 0
    /\ inProgress = 0
    /\ session = "none"
    /\ producer_client = "none"
    /\ results = NoTasks
    /\ data = NoneVal
    /\ now = 0
    /\ start_time = 0
    /\ processing_time = 0
    /\ sleep_time = 0
    /\ steps = <<>>
    /\ sinkBusy = 0
    /\ sendCalls = 0
    /\ sendLog = NoLog
    /\ batch = NoneVal
    /\ contract = 0
    /\ ingested = {}
    /\ strhash = LoopHash
    /\ keyLog = {}
    /\ call = NoneVal
    /\ monitor = IdleMonitor
    /\ pool = IdlePool

----------------------------------------------------------------------------
\* collector.py

\* main: async with EthereumDataCollector(config) -> __aenter__.  The key
\* values are handed to EventHubProducerClient unchecked; with one of them
\* None the library's constructor may accept it or raise.
aenter ==
    /\ variant = "hub"
    /\ pc = "main"
    /\ session' = "open"
    /\ \/ /\ producer_client' = "open"
          /\ pc' = "loop"
       \/ /\ ~({"event_hub.namespace", "event_hub.name"} \subseteq config.keys)
          /\ producer_client' = "none"
          /\ pc' = "crashed"
    /\ UNCHANGED <<variant, config, cycle, inProgress, results, data, now,
                   start_time, processing_time, sleep_time, steps, sinkBusy,
                   sendCalls, sendLog, batch, contract, ingested, strhash,
                   keyLog, call, monitor, pool>>

\* Mutation of TickStart: the next tick does not wait for the sleep to end.
TickStart_NoWait ==
    /\ variant = "hub"
    /\ pc \in {"loop", "sleep", "backoff"}
    /\ cycle' = Min(cycle + 1, MaxCycles + 1)
    /\ inProgress' = inProgress + 1
    /\ now' = cycle'
    /\ start_time' = now'
    /\ results' = AllRunning
    /\ sendCalls' = 0
    /\ steps' = <<"start">>
    /\ pc' = "gather"
    /\ UNCHANGED <<variant, config, session, producer_client, data,
                   processing_time, sleep_time, sinkBusy, sendLog, batch,
                   contract, ingested, strhash, keyLog, call, monitor, pool>>

\* run_collection_loop: the top of the while loop, up to the gather
TickStart ==
    /\ variant = "hub"
    /\ pc = "loop"
    /\ cycle' = Min(cycle + 1, MaxCycles + 1)
    /\ inProgress' = inProgress + 1
    /\ now' = cycle'
    /\ start_time' = now'
    /\ results' = AllRunning
    /\ sendCalls' = 0
    /\ steps' = <<"start">>
    /\ pc' = "gather"
    /\ UNCHANGED <<variant, config, session, producer_client, data,
                   processing_time, sleep_time, sinkBusy, sendLog, batch,
                   contract, ingested, strhash, keyLog, call, monitor, pool>>

\* Mutation of TaskSettle: the requests of the block source have no timeout
\* and never settle.
TaskSettle_NoTimeout(i) ==
    /\ variant = "hub"
    /\ pc = "gather"
    /\ i # 3
    /\ results[i] = Running
    /\ \E o \in TaskOutcomes(i, cycle) : results' = [results EXCEPT ![i] = o]
    /\ UNCHANGED <<variant, config, pc, cycle, inProgress, session,
                   producer_client, data, now, start_time, processing_time,
                   sleep_time, steps, sinkBusy, sendCalls, sendLog, batch,
                   contract, ingested, strhash, keyLog, call, monitor, pool>>

\* One of the five coroutines of fetch_ethereum_data settles: its requests
\* return, fail, or are cut off by the session's ClientTimeout(total=30).
TaskSettle(i) ==
    /\ variant = "hub"
    /\ pc = "gather"
    /\ results[i] = Running
    /\ \E o \in TaskOutcomes(i, cycle) : results' = [results EXCEPT ![i] = o]
    /\ UNCHANGED <<variant, config, pc, cycle, inProgress, session,
                   producer_client, data, now, start_time, processing_time,
                   sleep_time, steps, sinkBusy, sendCalls, sendLog, batch,
                   contract, ingested, strhash, keyLog, call, monitor, pool>>

\* Mutation of GatherReady: the gather returns at the first failure.
GatherReady_FirstException(res) ==
    \/ \A i \in 1..5 : res[i] # Running
    \/ \E i \in 1..5 : IsException(res[i])
\* asyncio.gather(*tasks, return_exceptions=True) resumes its caller
GatherReady(res) == \A i \in 1..5 : res[i] # Running

\* Mutation of fetch_ethereum_data: a failed source fails the collection.
fetch_ethereum_data_Raises ==
    /\ variant = "hub"
    /\ pc = "gather"
    /\ GatherReady(results)
    /\ IF \E i \in 1..5 : IsException(results[i])
       THEN /\ data' = data
            /\ sleep_time' = config.backoff
            /\ steps' = Append(steps, "collect_raised")
            /\ pc' = "backoff"
       ELSE /\ data' = CombinedData(results, cycle)
            /\ sleep_time' = sleep_time
            /\ steps' = Append(steps, "collect")
            /\ pc' = "send"
    /\ UNCHANGED <<variant, config, cycle, inProgress, session,
                   producer_client, results, now, start_time,
                   processing_time, sinkBusy, sendCalls, sendLog,
                   batch, contract, ingested, strhash, keyLog, call, monitor, pool>>

\* fetch_ethereum_data: from the gather's return to its own
fetch_ethereum_data ==
    /\ variant = "hub"
    /\ pc = "gather"
    /\ GatherReady(results)
    /\ data' = CombinedData(results, cycle)
    /\ steps' = Append(steps, "collect")
    /\ pc' = "send"
    /\ UNCHANGED <<variant, config, cycle, inProgress, session,
                   producer_client, results, now, start_time,
                   processing_time, sleep_time, sinkBusy, sendCalls, sendLog,
                   batch, contract, ingested, strhash, keyLog, call, monitor, pool>>

\* Mutation of send_to_event_hub: the event is put in the batch twice.
send_to_event_hub_Twice ==
    /\ variant = "hub"
    /\ pc = "send"
    /\ batch' = <<EventData(data, strhash), EventData(data, strhash)>>
    /\ sinkBusy' = sinkBusy + 1
    /\ sendCalls' = sendCalls + 1
    /\ results' = NoTasks
    /\ pc' = "in_send"
    /\ UNCHANGED <<variant, config, cycle, inProgress, session,
                   producer_client, data, now, start_time, processing_time,
                   sleep_time, steps, sendLog, contract, ingested, strhash,
                   keyLog, call, monitor, pool>>

\* send_to_event_hub, up to the await of send_batch
send_to_event_hub ==
    /\ variant = "hub"
    /\ pc = "send"
    /\ batch' = <<EventData(data, strhash)>>
    /\ sinkBusy' = sinkBusy + 1
    /\ sendCalls' = sendCalls + 1
    /\ results' = NoTasks
    /\ pc' = "in_send"
    /\ UNCHANGED <<variant, config, cycle, inProgress, session,
                   producer_client, data, now, start_time, processing_time,
                   sleep_time, steps, sendLog, contract, ingested, strhash,
                   keyLog, call, monitor, pool>>

\* Mutation of PacingSleep: the floor at zero is lost.
PacingSleep_NoFloor(interval_seconds, elapsed) == interval_seconds - elapsed
\* run_collection_loop: sleep_time
PacingSleep(interval_seconds, elapsed) == Max(0, interval_seconds - elapsed)

\* Mutation of send_batch_done: a failed send_batch is tried again in place.
send_batch_done_Retry ==
    /\ variant = "hub"
    /\ pc = "in_send"
    /\ producer_client' = "closed"
    /\ \E outcome \in {"ok", "fail"} :
          /\ sendLog' = Logged(sendLog, data.timestamp, outcome)
          /\ IF outcome = "ok"
             THEN /\ \E e \in WorkTimes : now' = now + e
                  /\ processing_time' = now' - start_time
                  /\ sleep_time' = Max(0, config.interval - processing_time')
                  /\ steps' = steps \o <<"deliver", "elapsed", "sleep">>
                  /\ pc' = "sleep"
                  /\ sinkBusy' = sinkBusy - 1
             ELSE /\ Len(sendLog[data.timestamp]) = 0
                  /\ UNCHANGED <<now, processing_time, sleep_time, steps,
                                 pc, sinkBusy>>
    /\ UNCHANGED <<variant, config, cycle, inProgress, session, results, data,
                   start_time, sendCalls, batch, contract, ingested,
                   strhash, keyLog, call, monitor, pool>>

\* send_batch returns or raises; "async with self.producer_client" closes the
\* client either way; run_collection_loop goes on to its sleep or its handler.
send_batch_done ==
    /\ variant = "hub"
    /\ pc = "in_send"
    /\ sinkBusy' = sinkBusy - 1
    /\ producer_client' = "closed"
    /\ \E outcome \in {"ok", "fail"} :
          /\ sendLog' = Logged(sendLog, data.timestamp, outcome)
          /\ IF outcome = "ok"
             THEN /\ \E e \in WorkTimes : now' = now + e
                  /\ processing_time' = now' - start_time
                  /\ sleep_time' = PacingSleep(config.interval, processing_time')
                  /\ steps' = steps \o <<"deliver", "elapsed", "sleep">>
                  /\ pc' = "sleep"
             ELSE /\ now' = now
                  /\ processing_time' = processing_time
                  /\ sleep_time' = config.backoff
                  /\ steps' = steps \o <<"deliver", "backoff">>
                  /\ pc' = "backoff"
    /\ UNCHANGED <<variant, config, cycle, inProgress, session, results, data,
                   start_time, sendCalls, batch, contract, ingested,
                   strhash, keyLog, call, monitor, pool>>

\* Mutation of BackoffDone: the failed record is sent again.
BackoffDone_Requeue ==
    /\ pc = "backoff"
    /\ pc' = IF variant = "hub" THEN "send" ELSE "loop"
    /\ inProgress' = IF variant = "hub" THEN inProgress ELSE inProgress - 1
    /\ sleep_time' = 0
    /\ UNCHANGED <<variant, config, cycle, session, producer_client, results,
                   data, batch, now, start_time, processing_time, steps,
                   sendCalls, contract, sinkBusy, sendLog, ingested, strhash,
                   keyLog, call, monitor, pool>>

\* await asyncio.sleep(sleep_time) returns: back to the top of the loop
SleepDone ==
    /\ pc = "sleep"
    /\ inProgress' = inProgress - 1
    /\ pc' = "loop"
    /\ data' = NoneVal
    /\ batch' = NoneVal
    /\ now' = 0
    /\ start_time' = 0
    /\ processing_time' = 0
    /\ sleep_time' = 0
    /\ steps' = <<>>
    /\ sendCalls' = 0
    /\ contract' = 0
    /\ UNCHANGED <<variant, config, cycle, session, producer_client, results,
                   sinkBusy, sendLog, ingested, strhash, keyLog, call, monitor, pool>>

\* Mutation of BackoffDone: the handler re-raises after its sleep.
BackoffDone_Reraise ==
    /\ pc = "backoff"
    /\ inProgress' = inProgress - 1
    /\ pc' = "crashed"
    /\ UNCHANGED <<variant, config, cycle, session, producer_client, results,
                   data, batch, now, start_time, processing_time,
                   sleep_time, steps, sendCalls, contract, sinkBusy, sendLog,
                   ingested, strhash, keyLog, call, monitor, pool>>

\* except Exception: ... await asyncio.sleep(5 / 60) returns
BackoffDone ==
    /\ pc = "backoff"
    /\ inProgress' = inProgress - 1
    /\ pc' = "loop"
    /\ data' = NoneVal
    /\ batch' = NoneVal
    /\ now' = 0
    /\ start_time' = 0
    /\ processing_time' = 0
    /\ sleep_time' = 0
    /\ steps' = <<>>
    /\ sendCalls' = 0
    /\ contract' = 0
    /\ UNCHANGED <<variant, config, cycle, session, producer_client, results,
                   sinkBusy, sendLog, ingested, strhash, keyLog, call, monitor, pool>>

----------------------------------------------------------------------------
\* collector_new.py

\* main: EthereumDataCollector() -> __init__ opens config.json and reads
\* config["kusto"]["cluster_uri"]; then the mode decides what runs.
collector_init ==
    /\ variant = "kusto"
    /\ pc = "main"
    /\ pc' = IF {"config.json", "kusto.cluster_uri"} \subseteq config.keys
             THEN (IF config.mode = "continuous" THEN "loop" ELSE "single")
             ELSE "crashed"
    /\ UNCHANGED <<variant, config, cycle, inProgress, session,
                   producer_client, results, data, now, start_time,
                   processing_time, sleep_time, steps, sinkBusy, sendCalls,
                   sendLog, batch, contract, ingested, strhash, keyLog, call, monitor, pool>>

\* What no stage of run_collection_cycle touches.
StageFrame ==
    UNCHANGED <<variant, config, cycle, producer_client, results, start_time,
                processing_time, sinkBusy, sendLog, batch, strhash, keyLog, call, monitor, pool>>

\* run_continuous: top of the loop / main's single cycle; run_collection_cycle
\* opens its own session.  now counts the seconds since the tick began.
cycle_start ==
    /\ variant = "kusto"
    /\ pc \in {"loop", "single"}
    /\ cycle' = Min(cycle + 1, MaxCycles + 1)
    /\ inProgress' = inProgress + 1
    /\ session' = "open"
    /\ now' = 0
    /\ sendCalls' = 0
    /\ steps' = <<"start">>
    /\ pc' = "collect_price"
    /\ UNCHANGED <<variant, config, producer_client, results, data,
                   start_time, processing_time, sleep_time, sinkBusy, sendLog,
                   batch, contract, ingested, strhash, keyLog, call, monitor, pool>>

\* a stage returned: on to the next one
StageOk(next, rows, step) ==
    /\ pc' = next
    /\ data' = rows
    /\ steps' = Append(steps, step)
    /\ UNCHANGED <<session, sleep_time, inProgress>>

\* a stage raised: run_collection_cycle logs and re-raises, leaving the
\* "async with" of its session; run_continuous catches and sleeps 60 s, while
\* the single cycle of main lets the exception end the process.
StageRaises(step) ==
    /\ session' = "closed"
    /\ data' = data
    /\ steps' = Append(steps, step)
    /\ IF config.mode = "continuous"
       THEN /\ pc' = "backoff"
            /\ sleep_time' = config.backoff
            /\ inProgress' = inProgress
       ELSE /\ pc' = "crashed"
            /\ sleep_time' = sleep_time
            /\ inProgress' = inProgress - 1

\* ingest_to_kusto with a failure of execute logged and not re-raised
ingest_to_kusto_Swallows(table, next) ==
    /\ sendCalls' = sendCalls + 1
    /\ now' = now
    /\ \/ /\ "kusto.database" \in config.keys
          /\ ingested' = ingested \cup
                           (IF cycle \in Tracked THEN {<<cycle, table>>} ELSE {})
          /\ StageOk(next, data, "ingest")
       \/ /\ ingested' = ingested
          /\ StageOk(next, data, "ingest_raised")

\* ingest_to_kusto(data, table_name): reads config["kusto"]["database"], then
\* one blocking kusto_client.execute, which returns or raises.
ingest_to_kusto(table, next) ==
    /\ sendCalls' = sendCalls + 1
    /\ now' = now
    /\ \/ /\ "kusto.database" \in config.keys
          /\ ingested' = ingested \cup
                           (IF cycle \in Tracked THEN {<<cycle, table>>} ELSE {})
          /\ StageOk(next, data, "ingest")
       \/ /\ ingested' = ingested
          /\ StageRaises("ingest_raised")

kusto_collect_price ==
    /\ variant = "kusto"
    /\ pc = "collect_price"
    /\ \E r \in KustoPriceResponses :
          LET price_data == collect_eth_price_data(r, cycle) IN
          /\ now' = now
          /\ IF IsException(price_data)
             THEN StageRaises("collect_raised")
             ELSE StageOk("ingest_price", price_data, "collect")
    /\ UNCHANGED <<sendCalls, contract, ingested>>
    /\ StageFrame

kusto_ingest_price ==
    /\ variant = "kusto"
    /\ pc = "ingest_price"
    /\ ingest_to_kusto("eth_price_raw", "collect_gas")
    /\ UNCHANGED contract
    /\ StageFrame

kusto_collect_gas ==
    /\ variant = "kusto"
    /\ pc = "collect_gas"
    /\ \E r \in KustoGasResponses :
          LET gas_data == collect_gas_data(r, cycle, config.keys) IN
          /\ now' = now
          /\ IF IsException(gas_data)
             THEN StageRaises("collect_raised")
             ELSE StageOk("ingest_gas", gas_data, "collect")
    /\ UNCHANGED <<sendCalls, contract, ingested>>
    /\ StageFrame

kusto_ingest_gas ==
    /\ variant = "kusto"
    /\ pc = "ingest_gas"
    /\ ingest_to_kusto("eth_gas_raw", "collect_transfers")
    /\ contract' = 1
    /\ StageFrame

\* for contract in self.config.get("erc20_contracts", []): collect
kusto_collect_transfers ==
    /\ variant = "kusto"
    /\ pc = "collect_transfers"
    /\ contract <= config.contracts
    /\ \E r \in KustoLogResponses :
          LET transfers == collect_erc20_transfers(r, cycle, config.keys) IN
          /\ now' = now
          /\ IF IsException(transfers)
             THEN StageRaises("collect_raised") /\ contract' = contract
             ELSE IF Len(transfers.transfers) > 0
             THEN StageOk("ingest_transfers", transfers, "collect")
                  /\ contract' = contract
             ELSE StageOk("collect_transfers", transfers, "collect")
                  /\ contract' = contract + 1
    /\ UNCHANGED <<sendCalls, ingested>>
    /\ StageFrame

\* if transfers: ingest
kusto_ingest_transfers ==
    /\ variant = "kusto"
    /\ pc = "ingest_transfers"
    /\ ingest_to_kusto("erc20_transfers_raw", "collect_transfers")
    /\ contract' = IF pc' = "collect_transfers" THEN contract + 1 ELSE contract
    /\ StageFrame

\* the cycle completed: the session is closed; run_continuous sleeps
\* interval_seconds, the single cycle of main ends the process.
cycle_done ==
    /\ variant = "kusto"
    /\ pc = "collect_transfers"
    /\ contract > config.contracts
    /\ session' = "closed"
    /\ steps' = Append(steps, "sleep")
    /\ IF config.mode = "continuous"
       THEN /\ pc' = "sleep"
            /\ sleep_time' = config.interval
            /\ inProgress' = inProgress
       ELSE /\ pc' = "exited"
            /\ sleep_time' = sleep_time
            /\ inProgress' = inProgress - 1
    /\ \E e \in WorkTimes : now' = now + e
    /\ UNCHANGED <<data, sendCalls, contract, ingested>>
    /\ StageFrame

----------------------------------------------------------------------------
Next ==
    \/ aenter
    \/ TickStart
    \/ \E i \in 1..5 : TaskSettle(i)
    \/ fetch_ethereum_data
    \/ send_to_event_hub
    \/ send_batch_done
    \/ SleepDone
    \/ BackoffDone
    \/ collector_init
    \/ cycle_start
    \/ kusto_collect_price
    \/ kusto_ingest_price
    \/ kusto_collect_gas
    \/ kusto_ingest_gas
    \/ kusto_collect_transfers
    \/ kusto_ingest_transfers
    \/ cycle_done

Spec == Init /\ [][Next]_vars

\* Every step of the loops is taken once it can be: a ready coroutine is run,
\* a sleep ends, a request settles by the session's timeout, a sink call
\* returns or raises.
FairSpec == Spec /\ WF_vars(Next)

----------------------------------------------------------------------------
\* The partition key on its own: processes of collector.py that compute keys
\* for timestamps.  hash() of a str is keyed by a seed the interpreter draws
\* when it starts, so each process has a hash function of its own.

InitKey ==
    /\ variant = "hub"
    /\ config \in {c \in Configs("hub") : c.keys = HubKeys}
    /\ pc = "main"
    /\ cycle = 0
    /\ inProgress = 0
    /\ session = "none"
    /\ producer_client = "none"
    /\ results = NoTasks
    /\ data = NoneVal
    /\ now = 0
    /\ start_time = 0
    /\ processing_time = 0
    /\ sleep_time = 0
    /\ steps = <<>>
    /\ sinkBusy = 0
    /\ sendCalls = 0
    /\ sendLog = NoLog
    /\ batch = NoneVal
    /\ contract = 0
    /\ ingested = {}
    /\ strhash \in HashFunctions
    /\ keyLog = {}
    /\ call = NoneVal
    /\ monitor = IdleMonitor
    /\ pool = IdlePool

\* send_to_event_hub computes the key of a record stamped ts
partition_key(ts) ==
    /\ keyLog' = keyLog \cup {<<ts, PartitionKey(strhash, ts)>>}
    /\ UNCHANGED <<variant, config, pc, cycle, inProgress, session,
                   producer_client, results, data, now, start_time,
                   processing_time, sleep_time, steps, sinkBusy, sendCalls,
                   sendLog, batch, contract, ingested, strhash,
                   call, monitor, pool>>

\* the collector is stopped and started again: a new interpreter, a new seed
ProcessRestart ==
    /\ strhash' \in HashFunctions
    /\ UNCHANGED <<variant, config, pc, cycle, inProgress, session,
                   producer_client, results, data, now, start_time,
                   processing_time, sleep_time, steps, sinkBusy, sendCalls,
                   sendLog, batch, contract, ingested, keyLog, call, monitor, pool>>

NextKey ==
    \/ \E ts \in Timestamps : partition_key(ts)
    \/ ProcessRestart

SpecKey == InitKey /\ [][NextKey]_vars

----------------------------------------------------------------------------
\* The upstream clients on their own: one client is called with one upstream
\* answer, and call records the answer, what the client returned or raised
\* and, for a client of collector.py, the record fetch_ethereum_data builds
\* from it when the other four sources answer well.

StatusCodes == {200, 404, 500}
\* dict d without the keys outside K
Restrict(d, K) == [k \in K |-> d[k]]
PriceKeys == DOMAIN PriceBody.ethereum
PriceBodies ==
    {[ethereum |-> Restrict(PriceBody.ethereum, K)] : K \in SUBSET PriceKeys}
       \cup {EmptyDict, NotJson}
PriceInputs == {Http(st, b) : st \in StatusCodes, b \in PriceBodies} \cup {NetErr}

GasKeys == DOMAIN GasBody.result
GasBodies ==
    {[result |-> Restrict(GasBody.result, K)] : K \in SUBSET GasKeys}
       \cup {EmptyDict, NotJson}
GasInputs == {Http(st, b) : st \in StatusCodes, b \in GasBodies} \cup {NetErr}

\* the three sub-calls of fetch_network_stats, in the order of its tasks
StatsBodies == <<SupplyBody, EthPriceBody, BlockNumberBody>>
StatsAnswers(i) ==
    {Http(200, StatsBodies[i]), Http(200, EmptyDict), Http(200, NotJson),
     Http(404, NotJson), Http(500, EmptyDict), NetErr}
StatsInputs == {<<a, b, c>> : a \in StatsAnswers(1), b \in StatsAnswers(2),
                              c \in StatsAnswers(3)}

DefiBodies == {[total |-> 77], EmptyDict, NotJson}
DefiInputs == {Http(st, b) : st \in StatusCodes, b \in DefiBodies} \cup {NetErr}

BlockKinds == {"ok", "status", "empty", "neterr"}
LatestAnswers == {Http(200, BlockNumberBody), Http(200, NotJson),
                  Http(500, EmptyDict), NetErr}
\* the sequences of length n over S
RECURSIVE Tuples(_, _)
Tuples(S, n) ==
    IF n = 0 THEN {<<>>} ELSE {Append(t, x) : t \in Tuples(S, n - 1), x \in S}
BlockCallInputs ==
    {[latest |-> l, kinds |-> k] :
        l \in LatestAnswers, k \in Tuples(BlockKinds, BlockCount)}

\* the timestamp of the cycle a client is called in
CallTime == 1
\* what the five tasks return when every upstream answers well
GoodResults ==
    <<fetch_current_price(Http(200, PriceBody), CallTime),
      fetch_network_stats(<<Http(200, SupplyBody), Http(200, EthPriceBody),
                            Http(200, BlockNumberBody)>>, CallTime),
      fetch_recent_blocks([latest |-> Http(200, BlockNumberBody),
                           kinds |-> [i \in 1..BlockCount |-> "ok"]], BlockCount),
      fetch_gas_tracker(Http(200, GasBody), CallTime),
      fetch_defi_metrics(Http(200, [total |-> 77]), CallTime)>>
\* fetch_ethereum_data when task i settles with r and the others return well
CombinedWith(i, r) == CombinedData([GoodResults EXCEPT ![i] = r], CallTime)
HubCall(name, i, input, r) ==
    [client |-> name, response |-> input, returned |-> r,
     combined |-> CombinedWith(i, r)]
ClientCall(name, input, r) ==
    [client |-> name, response |-> input, returned |-> r]

LoopVars == <<variant, config, pc, cycle, inProgress, session,
              producer_client, results, data, now, start_time,
              processing_time, sleep_time, steps, sinkBusy, sendCalls,
              sendLog, batch, contract, ingested, strhash, keyLog,
              monitor, pool>>

InitClients ==
    /\ variant \in {"hub", "kusto"}
    /\ config \in {c \in Configs(variant) :
                      /\ c.keys = RequiredKeys(variant)
                      /\ c.mode = "continuous"
                      /\ c.contracts = 0}
    /\ pc = "main"
    /\ cycle = 0
    /\ inProgress = 0
    /\ session = "none"
    /\ producer_client = "none"
    /\ results = NoTasks
    /\ data = NoneVal
    /\ now = 0
    /\ start_time = 0
    /\ processing_time = 0
    /\ sleep_time = 0
    /\ steps = <<>>
    /\ sinkBusy = 0
    /\ sendCalls = 0
    /\ sendLog = NoLog
    /\ batch = NoneVal
    /\ contract = 0
    /\ ingested = {}
    /\ strhash = LoopHash
    /\ keyLog = {}
    /\ call = NoneVal
    /\ monitor = IdleMonitor
    /\ pool = IdlePool

call_fetch_current_price ==
    /\ variant = "hub"
    /\ IsNone(call)
    /\ \E r \in PriceInputs :
          call' = HubCall("fetch_current_price", 1, r,
                          fetch_current_price(r, CallTime))
    /\ UNCHANGED LoopVars

call_fetch_network_stats ==
    /\ variant = "hub"
    /\ IsNone(call)
    /\ \E r \in StatsInputs :
          call' = HubCall("fetch_network_stats", 2, r,
                          fetch_network_stats(r, CallTime))
    /\ UNCHANGED LoopVars

call_fetch_recent_blocks ==
    /\ variant = "hub"
    /\ IsNone(call)
    /\ \E r \in BlockCallInputs :
          call' = ClientCall("fetch_recent_blocks", r,
                             fetch_recent_blocks(r, BlockCount))
    /\ UNCHANGED LoopVars

call_fetch_gas_tracker ==
    /\ variant = "hub"
    /\ IsNone(call)
    /\ \E r \in GasInputs :
          call' = HubCall("fetch_gas_tracker", 4, r,
                          fetch_gas_tracker(r, CallTime))
    /\ UNCHANGED LoopVars

call_fetch_defi_metrics ==
    /\ variant = "hub"
    /\ IsNone(call)
    /\ \E r \in DefiInputs :
          call' = HubCall("fetch_defi_metrics", 5, r,
                          fetch_defi_metrics(r, CallTime))
    /\ UNCHANGED LoopVars

call_collect_eth_price_data ==
    /\ variant = "kusto"
    /\ IsNone(call)
    /\ \E r \in PriceInputs :
          call' = ClientCall("collect_eth_price_data", r,
                             collect_eth_price_data(r, CallTime))
    /\ UNCHANGED LoopVars

call_collect_gas_data ==
    /\ variant = "kusto"
    /\ IsNone(call)
    /\ \E r \in GasInputs :
          call' = ClientCall("collect_gas_data", r,
                             collect_gas_data(r, CallTime, config.keys))
    /\ UNCHANGED LoopVars

\* the caller has the client's result; the next call can be made
call_done ==
    /\ ~IsNone(call)
    /\ call' = NoneVal
    /\ UNCHANGED LoopVars

NextClients ==
    \/ call_fetch_current_price
    \/ call_fetch_network_stats
    \/ call_fetch_recent_blocks
    \/ call_fetch_gas_tracker
    \/ call_fetch_defi_metrics
    \/ call_collect_eth_price_data
    \/ call_collect_gas_data
    \/ call_done

SpecClients == InitClients /\ [][NextClients]_vars

----------------------------------------------------------------------------
\* fetch_recent_blocks step by step: call holds the coroutine's locals, the
\* requests it has issued so far and the number of them still in flight.

LatestRequest == [action |-> "eth_blockNumber", tag |-> 0]
BlockRequest(n) == [action |-> "eth_getBlockByNumber", tag |-> n]
\* Mutation of BlockNumber: the loop walks up from the latest block.
BlockNumber_Ascending(latest_block, i) == latest_block + i
\* block_number = latest_block - i
BlockNumber(latest_block, i) == latest_block - i

InBlocks(at) == ~IsNone(call) /\ call.at = at

\* the call, up to the await of the latest-block request
blocks_call ==
    /\ IsNone(call)
    /\ \E input \in BlockCallInputs :
          call' = [client |-> "fetch_recent_blocks", response |-> input,
                   at |-> "latest", requests |-> <<LatestRequest>>,
                   inflight |-> 1, i |-> 0, latest_block |-> 0,
                   blocks |-> <<>>, returned |-> Running]
    /\ UNCHANGED LoopVars

\* the latest-block request settles
blocks_latest_done ==
    /\ InBlocks("latest")
    /\ LET latest == call.response.latest
           failure ==
              IF latest.neterr THEN Raise(NetErrMsg)
              ELSE IF latest.status # 200
                   THEN Raise("Block number API error: " \o IntStr(latest.status))
              ELSE IF ~IsJson(latest.body) THEN Raise(NotJsonMsg)
              ELSE IF "result" \notin DOMAIN latest.body THEN Raise("'result'")
              ELSE NoneVal
       IN IF IsNone(failure)
          THEN call' = [call EXCEPT !.inflight = @ - 1, !.at = "loop",
                                    !.latest_block = ParseInt(latest.body.result, 16)]
          ELSE call' = [call EXCEPT !.inflight = @ - 1, !.at = "done",
                                    !.returned = failure]
    /\ UNCHANGED LoopVars

\* for i in range(count): the request of block latest_block - i is issued
blocks_request ==
    /\ InBlocks("loop")
    /\ call.i < BlockCount
    /\ call' = [call EXCEPT
                  !.requests = Append(@, BlockRequest(BlockNumber(call.latest_block, call.i))),
                  !.inflight = @ + 1, !.at = "block"]
    /\ UNCHANGED LoopVars

\* the block request settles: the block is appended, skipped, or the request
\* error leaves the coroutine
blocks_block_done ==
    /\ InBlocks("block")
    /\ LET asked == call.requests[Len(call.requests)].tag
           block_response == BlockResponse(call.response.kinds[call.i + 1], asked)
       IN IF block_response.neterr
          THEN call' = [call EXCEPT !.inflight = @ - 1, !.at = "done",
                                    !.returned = Raise(NetErrMsg)]
          ELSE IF block_response.status = 200
                  /\ ~IsNone(Get(block_response.body, "result", NoneVal))
          THEN call' = [call EXCEPT !.inflight = @ - 1, !.at = "loop", !.i = @ + 1,
                           !.blocks = Append(@, DecodeBlock(block_response.body.result))]
          ELSE call' = [call EXCEPT !.inflight = @ - 1, !.at = "loop", !.i = @ + 1]
    /\ UNCHANGED LoopVars

\* return blocks
blocks_return ==
    /\ InBlocks("loop")
    /\ call.i >= BlockCount
    /\ call' = [call EXCEPT !.at = "done", !.returned = [blocks |-> call.blocks]]
    /\ UNCHANGED LoopVars

NextBlocks ==
    \/ blocks_call
    \/ blocks_latest_done
    \/ blocks_request
    \/ blocks_block_done
    \/ blocks_return

InitBlocks == InitClients /\ variant = "hub"

SpecBlocks == InitBlocks /\ [][NextBlocks]_vars

----------------------------------------------------------------------------
\* quality_monitor.py.  A query's outcome is what kusto_client.execute did:
\* it raised (the placeholder client None raises on every call), or it
\* returned primary_results[0] as a sequence of rows.

QueryRaised == Raise("execute failed")
FreshnessOutcomes ==
    {QueryRaised, [rows |-> <<>>]}
       \cup {[rows |-> <<[Timestamp |-> age]>>] : age \in 0..MaxAge}
CompletenessOutcomes ==
    {QueryRaised, [rows |-> <<>>]}
       \cup {[rows |-> <<[actual_count |-> n]>>] : n \in 0..MaxRows}
AnomalyRow == [Timestamp |-> 1, Price |-> 3000, price_change |-> 400]
ConsistencyOutcomes ==
    {QueryRaised} \cup {[rows |-> [j \in 1..n |-> AnomalyRow]] : n \in 0..MaxRows}

QualityCheckResult(name, status, message) ==
    [check |-> name, status |-> status, message |-> message]
IndexErrorMsg == "list index out of range"

\* Mutation of check_data_freshness: the failure of the query is not caught.
check_data_freshness_Uncaught(q) ==
    IF IsException(q) THEN q
    ELSE IF Len(q.rows) = 0 THEN Raise(IndexErrorMsg)
    ELSE LET minutes_old == q.rows[1].Timestamp IN
         QualityCheckResult("freshness",
                            IF minutes_old <= FreshMinutes THEN "PASS" ELSE "FAIL",
                            "Data is " \o IntStr(minutes_old) \o ".00 minutes old.")

\* check_data_freshness; the row's Timestamp is given as its age in minutes
check_data_freshness(q) ==
    IF IsException(q) THEN QualityCheckResult("freshness", "ERROR", q.exc)
    ELSE IF Len(q.rows) = 0
         THEN QualityCheckResult("freshness", "ERROR", IndexErrorMsg)
    ELSE LET minutes_old == q.rows[1].Timestamp IN
         QualityCheckResult("freshness",
                            IF minutes_old <= FreshMinutes THEN "PASS" ELSE "FAIL",
                            "Data is " \o IntStr(minutes_old) \o ".00 minutes old.")

\* check_data_completeness
check_data_completeness(q) ==
    IF IsException(q) THEN QualityCheckResult("completeness", "ERROR", q.exc)
    ELSE IF Len(q.rows) = 0
         THEN QualityCheckResult("completeness", "ERROR", IndexErrorMsg)
    ELSE LET actual_count == q.rows[1].actual_count IN
         QualityCheckResult("completeness",
                            IF actual_count >= 1 THEN "PASS" ELSE "FAIL",
                            "Expected at least 1 price record in the last hour, found "
                               \o IntStr(actual_count) \o ".")

\* check_data_consistency
check_data_consistency(q) ==
    IF IsException(q) THEN QualityCheckResult("consistency", "ERROR", q.exc)
    ELSE LET anomalies == q.rows IN
         QualityCheckResult("consistency",
                            IF Len(anomalies) = 0 THEN "PASS" ELSE "FAIL",
                            "Found " \o IntStr(Len(anomalies))
                               \o " price anomalies in the last 15 minutes.")

\* A str as an element of a Python list.
Str(s) == [str |-> s]
\* iterating a dict yields its keys in insertion order; every result dict is
\* built as {"check": ..., "status": ..., "message": ...}
DictKeys(d) ==
    SelectSeq(<<"check", "status", "message">>, LAMBDA k : k \in DOMAIN d)
\* list.extend(iterable) with a dict as the iterable
Extend(list, d) ==
    list \o [j \in 1..Len(DictKeys(d)) |-> Str(DictKeys(d)[j])]

CollectorVars == <<variant, config, pc, cycle, inProgress, session,
                   producer_client, results, data, now, start_time,
                   processing_time, sleep_time, steps, sinkBusy, sendCalls,
                   sendLog, batch, contract, ingested, strhash, keyLog, call,
                   pool>>

InitQuality == InitClients /\ variant = "hub"

\* run_quality_checks is called: results = []
run_quality_checks ==
    /\ monitor.at = "idle"
    /\ monitor' = [at |-> "freshness", results |-> <<>>, checks |-> <<>>,
                   queries |-> <<>>, returned |-> Running]
    /\ UNCHANGED CollectorVars

\* a check raised inside the try of run_quality_checks
QualityHandler(e) ==
    <<QualityCheckResult("quality_monitor", "ERROR", e.exc)>>

\* one check of run_quality_checks has been called with q as the outcome of
\* its query and has come back with r; added is the list with r added
AfterCheck(q, r, next, added) ==
    IF IsException(r)
    THEN monitor' = [monitor EXCEPT !.at = "returned",
                                    !.queries = Append(@, q),
                                    !.returned = QualityHandler(r)]
    ELSE monitor' = [monitor EXCEPT !.at = next,
                                    !.queries = Append(@, q),
                                    !.checks = Append(@, r),
                                    !.results = added]

\* results.append(check_data_freshness())
quality_freshness ==
    /\ monitor.at = "freshness"
    /\ \E q \in FreshnessOutcomes :
          AfterCheck(q, check_data_freshness(q), "completeness",
                     Append(monitor.results, check_data_freshness(q)))
    /\ UNCHANGED CollectorVars

\* results.append(check_data_completeness())
quality_completeness ==
    /\ monitor.at = "completeness"
    /\ \E q \in CompletenessOutcomes :
          AfterCheck(q, check_data_completeness(q), "consistency",
                     Append(monitor.results, check_data_completeness(q)))
    /\ UNCHANGED CollectorVars

\* results.extend(check_data_consistency())
quality_consistency ==
    /\ monitor.at = "consistency"
    /\ \E q \in ConsistencyOutcomes :
          AfterCheck(q, check_data_consistency(q), "return",
                     Extend(monitor.results, check_data_consistency(q)))
    /\ UNCHANGED CollectorVars

\* return results
quality_return ==
    /\ monitor.at = "return"
    /\ monitor' = [monitor EXCEPT !.at = "returned", !.returned = monitor.results]
    /\ UNCHANGED CollectorVars

\* the caller has the list; the checks can be run again
quality_done ==
    /\ monitor.at = "returned"
    /\ monitor' = IdleMonitor
    /\ UNCHANGED CollectorVars

NextQuality ==
    \/ run_quality_checks
    \/ quality_freshness
    \/ quality_completeness
    \/ quality_consistency
    \/ quality_return
    \/ quality_done

SpecQuality == InitQuality /\ [][NextQuality]_vars

----------------------------------------------------------------------------
\* The HTTP connection pool of collector.py's session.  A request checks a
\* connection out of the TCPConnector; the connection goes back when the
\* response is released: by leaving "async with", by reading the body to its
\* end (response.json()), or, for a response that was neither read nor
\* released, whenever the runtime finalises the response object.

\* aiohttp.TCPConnector(limit=100)
PoolLimit == 100

\* connections a source's requests hold while they are in flight:
\* fetch_network_stats gathers three requests, the others await one at a time
Need(i) == IF i = 2 THEN 3 ELSE 1

\* fetch_network_stats' loop over the responses from response i on: a
\* response with status 200 is read by response.json(), another one is only
\* asked for its status; when json() raises the rest is never looked at.
RECURSIVE StatsLoopUnreleased(_, _)
StatsLoopUnreleased(responses, i) ==
    IF i > 3 THEN 0
    ELSE IF responses[i].status = 200
         THEN IF IsJson(responses[i].body)
              THEN StatsLoopUnreleased(responses, i + 1)
              ELSE 3 - i
         ELSE 1 + StatsLoopUnreleased(responses, i + 1)
\* responses fetch_network_stats leaves unread and unreleased.  When a
\* sub-request fails, gather raises and the answers of the others are dropped.
StatsUnreleased(responses) ==
    IF \E i \in 1..3 : responses[i].neterr
    THEN Cardinality({i \in 1..3 : ~responses[i].neterr})
    ELSE StatsLoopUnreleased(responses, 1)

\* fetch_recent_blocks' loop from iteration i on
RECURSIVE BlockLoopUnreleased(_, _)
BlockLoopUnreleased(kinds, i) ==
    IF i > Len(kinds) THEN 0
    ELSE CASE kinds[i] = "neterr" -> 0
           [] kinds[i] = "status" -> 1 + BlockLoopUnreleased(kinds, i + 1)
           [] OTHER -> BlockLoopUnreleased(kinds, i + 1)
\* responses fetch_recent_blocks leaves unread and unreleased
BlocksUnreleased(input) ==
    IF input.latest.neterr THEN 0
    ELSE IF input.latest.status # 200 THEN 1
    ELSE IF ~IsJson(input.latest.body) THEN 0
    ELSE BlockLoopUnreleased(input.kinds, 1)

\* what source i leaves unreleased over the answers it may get:
\* fetch_current_price, fetch_gas_tracker and fetch_defi_metrics request
\* inside "async with", which releases on every way out
SourceUnreleased(i) ==
    CASE i = 2 -> {StatsUnreleased(r) : r \in StatsInputs}
      [] i = 3 -> {BlocksUnreleased(r) : r \in BlockCallInputs}
      [] OTHER -> {0}

CheckedOut == pool.inuse + pool.unreleased

OutsidePool == <<variant, config, pc, cycle, inProgress, session,
                 producer_client, results, data, now, start_time,
                 processing_time, sleep_time, steps, sinkBusy, sendCalls,
                 sendLog, batch, contract, ingested, strhash, keyLog, call,
                 monitor>>

InitPool == InitClients /\ variant = "hub"

\* fetch_ethereum_data creates the five tasks of a tick
pool_gather ==
    /\ pool.at = "idle"
    /\ pool' = [pool EXCEPT !.at = "gather",
                            !.state = [i \in 1..5 |-> "todo"]]
    /\ UNCHANGED OutsidePool

\* source i sends its requests; the connector hands out at most limit
\* connections, a request beyond that waits
pool_request(i) ==
    /\ pool.at = "gather"
    /\ pool.state[i] = "todo"
    /\ CheckedOut + Need(i) <= PoolLimit
    /\ pool' = [pool EXCEPT !.state[i] = "open", !.inuse = @ + Need(i)]
    /\ UNCHANGED OutsidePool

\* source i returns or raises
pool_settle(i) ==
    /\ pool.at = "gather"
    /\ pool.state[i] = "open"
    /\ \E k \in SourceUnreleased(i) :
          /\ pool.unreleased + k <= MaxUnreleased
          /\ pool' = [pool EXCEPT !.state[i] = "done",
                                  !.inuse = @ - Need(i),
                                  !.unreleased = @ + k]
    /\ UNCHANGED OutsidePool

\* the runtime finalises a response that was dropped unread
\* (ClientResponse.__del__ releases its connection)
pool_finalize ==
    /\ pool.unreleased > 0
    /\ pool' = [pool EXCEPT !.unreleased = @ - 1]
    /\ UNCHANGED OutsidePool

\* gather has every result: the tick goes on to send and sleep
pool_tick_done ==
    /\ pool.at = "gather"
    /\ \A i \in 1..5 : pool.state[i] = "done"
    /\ pool' = [pool EXCEPT !.at = "idle"]
    /\ UNCHANGED OutsidePool

NextPool ==
    \/ pool_gather
    \/ \E i \in 1..5 : pool_request(i)
    \/ \E i \in 1..5 : pool_settle(i)
    \/ pool_finalize
    \/ pool_tick_done

SpecPool == InitPool /\ [][NextPool]_vars

----------------------------------------------------------------------------
\* fetch_ethereum_data on its own, with the order in which its five tasks
\* complete: call.outcomes is what each source returns or raises, call.done
\* lists the sources in the order they completed.

\* the call before any task has completed
GatherCall(outcomes) ==
    [client |-> "fetch_ethereum_data", outcomes |-> outcomes, done |-> <<>>,
     returned |-> Running]
InGather == ~IsNone(call) /\ call.client = "fetch_ethereum_data"
Completed(done) == {done[j] : j \in 1..Len(done)}

\* Mutation of GatherResults: the results in the order of completion
\* (as asyncio.as_completed would give them).
GatherResults_AsCompleted(outcomes, done) ==
    [j \in 1..5 |-> outcomes[done[j]]]
\* results = await asyncio.gather(*tasks, return_exceptions=True): the
\* results come in the order of the awaitables, whenever each completed
GatherResults(outcomes, done) ==
    [i \in 1..5 |-> outcomes[i]]

InitGather == InitClients /\ variant = "hub"

\* fetch_ethereum_data creates its tasks and awaits the gather
gather_call ==
    /\ IsNone(call)
    /\ \E o1 \in TaskOutcomes(1, CallTime), o2 \in TaskOutcomes(2, CallTime),
          o3 \in TaskOutcomes(3, CallTime), o4 \in TaskOutcomes(4, CallTime),
          o5 \in TaskOutcomes(5, CallTime) :
          call' = GatherCall(<<o1, o2, o3, o4, o5>>)
    /\ UNCHANGED LoopVars

\* source i completes
gather_settle(i) ==
    /\ InGather
    /\ i \notin Completed(call.done)
    /\ call' = [call EXCEPT !.done = Append(@, i)]
    /\ UNCHANGED LoopVars

\* the gather returns and combined_data is built and returned
gather_return ==
    /\ InGather
    /\ call.returned = Running
    /\ Len(call.done) = 5
    /\ call' = [call EXCEPT
                  !.returned = CombinedData(
                                  GatherResults(call.outcomes, call.done),
                                  CallTime)]
    /\ UNCHANGED LoopVars

NextGather ==
    \/ gather_call
    \/ \E i \in 1..5 : gather_settle(i)
    \/ gather_return

SpecGather == InitGather /\ [][NextGather]_vars

----------------------------------------------------------------------------
\* Claims.

SlotOf(d, i) ==
    CASE i = 1 -> d.price_data
      [] i = 2 -> d.network_stats
      [] i = 3 -> d.recent_blocks
      [] i = 4 -> d.gas_data
      [] OTHER -> d.defi_metrics
Raised(res) == {i \in 1..5 : IsException(res[i])}
Built == variant = "hub" /\ pc = "send"

\* C1: whatever each source did (returned or raised), fetch_ethereum_data
\* returns a combined record: a slot is null exactly when its source raised,
\* errors has one entry per source that raised, and a tick of
\* run_collection_loop never reaches its error handler before its delivery.
C1_RecordAlwaysBuilt ==
    /\ Built =>
          /\ ~IsNone(data)
          /\ \A i \in 1..5 : IsNone(SlotOf(data, i)) <=> IsException(results[i])
          /\ Len(data.errors) = Cardinality(Raised(results))
          /\ \A i \in Raised(results) :
                \E j \in 1..Len(data.errors) : data.errors[j] = results[i].exc
    /\ (variant = "hub" /\ pc = "backoff") => sendCalls = 1

\* A record built when every source that can raise did raise.
C1_Witness ==
    /\ Built
    /\ Raised(results) = {1, 2, 3, 4}
    /\ Len(data.errors) = 4
    /\ IsNone(data.price_data) /\ IsNone(data.gas_data)

\* C2: the record is built only once every fetch has settled, and every
\* source that returned has its own result in its own slot, whatever the
\* other sources did and in whatever order the fetches completed.
C2_AllSettledOwnSlots ==
    /\ Built =>
          \A i \in 1..5 :
             /\ results[i] # Running
             /\ ~IsException(results[i]) => SlotOf(data, i) = results[i]
    /\ (variant = "hub" /\ pc \in {"send", "in_send", "sleep", "backoff"})
          => (Len(steps) >= 2 /\ steps[2] = "collect" /\ ~IsNone(data))

\* A record built after the price source raised and the gas source returned.
C2_Witness ==
    /\ Built
    /\ IsException(results[1])
    /\ ~IsException(results[4])
    /\ data.gas_data = results[4]
    /\ IsNone(data.price_data)

LoopPcs == {"loop", "gather", "send", "in_send", "sleep", "backoff",
            "collect_price", "ingest_price", "collect_gas", "ingest_gas",
            "collect_transfers", "ingest_transfers"}
\* run_collection_loop or run_continuous has been entered
InLoop == config.mode = "continuous" /\ pc \in LoopPcs
TickBegun == pc \in {"gather", "collect_price"}

\* C3: in run_collection_loop and in run_continuous an error of a tick never
\* leaves the loop: the handler sleeps the fixed backoff (5 s, 60 s) and a
\* new tick begins; once entered, the loop is never left.
C3_LoopSurvivesErrors ==
    /\ [][InLoop => InLoop']_vars
    /\ [](pc = "backoff" =>
             sleep_time = IF variant = "hub" THEN BackoffFast ELSE BackoffSlow)
    /\ (pc = "backoff") ~> TickBegun

\* The second tick has begun after the first one's delivery failed.
C3_Witness ==
    /\ variant = "hub"
    /\ cycle = 2
    /\ pc = "gather"
    /\ sendLog[1] = <<"fail">>

\* C4: in collector.py a tick calls the sink at most once, and a record is
\* handed to the sink at most once over all ticks: a failed delivery is
\* neither retried in its tick nor requeued for a later one.
C4_AtMostOneAttempt ==
    variant = "hub" =>
       /\ sendCalls <= 1
       /\ \A k \in Tracked : Len(sendLog[k]) <= 1
       /\ pc = "backoff" => (sendCalls = 1 /\ sinkBusy = 0)

\* Record 1 failed, and a later tick delivered record 2 and nothing else.
C4_Witness ==
    /\ variant = "hub"
    /\ sendLog[1] = <<"fail">>
    /\ sendLog[2] = <<"ok">>
    /\ sendCalls = 1

Produced(k) == variant = "hub" /\ pc = "send" /\ data.timestamp = k
Attempted(k) == Len(sendLog[k]) >= 1
Accepted(k) == \E j \in 1..Len(sendLog[k]) : sendLog[k][j] = "ok"

\* C5 as stated: every record a cycle produced is eventually accepted by the
\* sink.
C5_AtLeastOnce == \A k \in Tracked : [](Produced(k) => <>Accepted(k))

\* C5 as amended: every record a cycle produced is handed to the sink, once;
\* it is accepted exactly when that one attempt succeeds, and a record whose
\* attempt failed is dropped for good.
C5_OneAttemptThenDropped ==
    /\ \A k \in Tracked : Produced(k) ~> Attempted(k)
    /\ [][\A k \in Tracked :
             sendLog[k] = <<"fail">> => sendLog'[k] = <<"fail">>]_vars
    /\ [](\A k \in Tracked : Accepted(k) => sendLog[k] = <<"ok">>)

\* Record 1 was refused by the sink and the loop has moved on to a later tick.
C5_Witness ==
    /\ variant = "hub"
    /\ sendLog[1] = <<"fail">>
    /\ cycle > MaxCycles
    /\ pc = "sleep"

\* the time the tick's work took
Elapsed == IF variant = "hub" THEN processing_time ELSE now

\* C6 as stated: in both loops an error-free tick records its start, collects,
\* delivers, computes the elapsed time and sleeps max(0, interval - elapsed).
C6_PacedSleepBothLoops ==
    pc = "sleep" =>
       /\ sleep_time = Max(0, config.interval - Elapsed)
       /\ sleep_time >= 0

\* C6 as amended: run_collection_loop does so; run_continuous records no
\* start time and sleeps the whole interval whatever the cycle took.
C6_PacedSleep ==
    pc = "sleep" =>
       IF variant = "hub"
       THEN /\ steps = <<"start", "collect", "deliver", "elapsed", "sleep">>
            /\ processing_time = now - start_time
            /\ sleep_time >= 0
            /\ sleep_time + processing_time >= IntervalFast
            /\ processing_time >= IntervalFast => sleep_time = 0
            /\ processing_time < IntervalFast
                  => sleep_time = IntervalFast - processing_time
       ELSE sleep_time = IntervalSlow

\* A tick of run_collection_loop whose work took longer than the interval.
C6_Witness ==
    /\ variant = "hub"
    /\ pc = "sleep"
    /\ processing_time > IntervalFast
    /\ sleep_time = 0

\* C7: at most one cycle is in progress and at most one call of the sink is
\* in flight; a tick is in progress exactly between its start and the end of
\* its sleep.
C7_NoOverlap ==
    /\ inProgress <= 1
    /\ sinkBusy <= 1
    /\ pc \in (LoopPcs \ {"loop"}) => inProgress = 1
    /\ pc = "loop" => (inProgress = 0 /\ sinkBusy = 0)

\* The second cycle is delivering, alone.
C7_Witness ==
    /\ cycle = 2
    /\ pc = "in_send"
    /\ sinkBusy = 1
    /\ inProgress = 1

\* C8: while the collector scope is entered the sink client handle stays
\* open: a delivery, successful or failed, leaves it open, and every tick
\* starts with the handle as the first tick found it.
C8_HandleStaysOpen ==
    (variant = "hub" /\ pc \in LoopPcs) => producer_client = "open"

\* C9: the partition key is a function of the record's timestamp alone: any
\* two computations for the same timestamp yield the same key.
C9_KeyOfTimestampAlone ==
    \A a \in keyLog, b \in keyLog : a[1] = b[1] => a[2] = b[2]

\* C10: a missing required configuration key stops the process at startup:
\* no loop is entered and no tick runs unless every required key is present.
C10_MissingKeyFatalAtStartup ==
    (pc \in LoopPcs \/ pc \in {"single", "exited"})
       => RequiredKeys(variant) \subseteq config.keys

\* C11: a cycle that reaches delivery calls send_batch exactly once, with a
\* list of exactly one event whose body is the serialized record the cycle
\* collected.
C11_OneCallOneEvent ==
    (variant = "hub" /\ pc \in {"in_send", "sleep", "backoff"}) =>
       /\ sendCalls = 1
       /\ Len(batch) = 1
       /\ batch[1].body = json_dumps(data)
       /\ data.timestamp = cycle

\* The second cycle's delivery is in flight with the second cycle's record.
C11_Witness ==
    /\ variant = "hub"
    /\ pc = "in_send"
    /\ cycle = 2
    /\ Len(batch) = 1
    /\ batch[1].body.json.timestamp = 2

PriceFailed(d) == IsNone(d.price_data)

Called(c) == ~IsNone(call) /\ call.client = c
CalledPrice == Called("fetch_current_price") \/ Called("collect_eth_price_data")
CalledGas == Called("fetch_gas_tracker") \/ Called("collect_gas_data")
\* the keys of the price answer that the called client maps
MappedPriceKeys ==
    IF call.client = "fetch_current_price" THEN PriceKeys ELSE PriceKeys \ {"btc"}
HasKeys(body, top, keys) ==
    /\ IsJson(body)
    /\ top \in DOMAIN body
    /\ keys \subseteq DOMAIN body[top]

\* C13: either price client fails whenever the status is not 200 or a mapped
\* key is missing; in collector.py a status 500 leaves the price slot null
\* with exactly one errors entry that names status 500, the record being
\* built all the same.
C13_PriceFailsOnBadAnswer ==
    /\ (CalledPrice /\ ~call.response.neterr) =>
          ((call.response.status # 200
               \/ ~HasKeys(call.response.body, "ethereum", MappedPriceKeys))
             => IsException(call.returned))
    /\ (Called("fetch_current_price") /\ call.response.status = 500) =>
          /\ IsNone(call.combined.price_data)
          /\ call.combined.errors = <<"Price API error: 500">>

\* C14: with count = 5 and exactly one failing block sub-request (bad status,
\* empty result or request error), fetch_recent_blocks raises nothing and
\* returns four blocks.
C14_OneBadBlockSkipped ==
    (Called("fetch_recent_blocks")
        /\ call.response.latest = Http(200, BlockNumberBody)
        /\ Cardinality({i \in 1..BlockCount : call.response.kinds[i] # "ok"}) = 1)
      => (~IsException(call.returned) /\ Len(call.returned.blocks) = BlockCount - 1)

\* no sub-call of fetch_network_stats answered 200 with an unreadable body
StatsReadable(rs) == \A i \in 1..3 : rs[i].status = 200 => IsJson(rs[i].body)

\* C16: in fetch_network_stats a sub-call with a status other than 200 does
\* not fail the source: its field takes the default ("0", {}, 0) and the
\* other fields keep what was fetched; a network failure of any sub-call
\* fails the source, which leaves a null slot and one errors entry.
C16_StatsDefaultsOrFailure ==
    Called("fetch_network_stats") =>
       LET rs == call.response
           out == call.returned
       IN /\ (\E i \in 1..3 : rs[i].neterr) =>
                /\ IsException(out)
                /\ IsNone(call.combined.network_stats)
                /\ call.combined.errors = <<out.exc>>
          /\ ((\A i \in 1..3 : ~rs[i].neterr) /\ StatsReadable(rs)) =>
                /\ ~IsException(out)
                /\ call.combined.network_stats = out
                /\ call.combined.errors = <<>>
                /\ rs[1].status # 200 => out.total_supply = "0"
                /\ rs[2].status # 200 => out.eth_price = EmptyDict
                /\ rs[3].status # 200 => out.latest_block = 0
                /\ rs[1] = Http(200, SupplyBody) => out.total_supply = SupplyBody.result
                /\ rs[2] = Http(200, EthPriceBody) => out.eth_price = EthPriceBody.result
                /\ rs[3] = Http(200, BlockNumberBody) => out.latest_block = 18

\* The price sub-call answered 500 and the other two fields were fetched.
C16_Witness ==
    /\ Called("fetch_network_stats")
    /\ call.response = <<Http(200, SupplyBody), Http(500, EmptyDict),
                         Http(200, BlockNumberBody)>>
    /\ call.returned.eth_price = EmptyDict
    /\ call.returned.total_supply = "120"
    /\ call.returned.latest_block = 18

\* C17: fetch_defi_metrics never raises: on a status other than 200 and on
\* any exception it returns total_value_locked = 0 with an error string, so
\* the defi_metrics slot is never null and errors gets no entry from it.
C17_DefiNeverPropagates ==
    Called("fetch_defi_metrics") =>
       /\ ~IsException(call.returned)
       /\ (call.response.neterr \/ call.response.status # 200
             \/ ~IsJson(call.response.body)) =>
             /\ call.returned.total_value_locked = 0
             /\ "error" \in DOMAIN call.returned
       /\ ~IsNone(call.combined.defi_metrics)
       /\ call.combined.defi_metrics = call.returned
       /\ call.combined.errors = <<>>

\* The DeFi request could not connect; the record carries the zero metric.
C17_Witness ==
    /\ Called("fetch_defi_metrics")
    /\ call.response.neterr
    /\ call.combined.defi_metrics = [total_value_locked |-> 0, error |-> NetErrMsg]
    /\ call.combined.errors = <<>>

\* C18: either gas client fails whenever the status is not 200, and on a 200
\* answer returns the three gas prices as integers.
C18_GasFailsOnBadStatus ==
    (CalledGas /\ ~call.response.neterr) =>
       /\ call.response.status # 200 => IsException(call.returned)
       /\ (call.response.status = 200
             /\ HasKeys(call.response.body, "result", GasKeys)) =>
             /\ ~IsException(call.returned)
             /\ call.returned.safe_gas_price = 10
             /\ call.returned.standard_gas_price = 15
             /\ call.returned.fast_gas_price = 25

\* C19: a 200 price answer with usd, usd_market_cap, usd_24h_vol and
\* usd_24h_change but no btc yields a price record, not a failure.
C19_BtcOptional ==
    (CalledPrice /\ ~call.response.neterr /\ call.response.status = 200
        /\ HasKeys(call.response.body, "ethereum", PriceKeys \ {"btc"})
        /\ "btc" \notin DOMAIN call.response.body.ethereum)
      => ~IsException(call.returned)

\* C20: no client returns a success record with a value that was neither in
\* the upstream answer nor a documented default: a price or gas record has
\* every mapped key in the answer, and a zero DeFi metric that is not in the
\* answer comes with its error string.
C20_NothingFabricated ==
    /\ (CalledPrice /\ ~IsException(call.returned)) =>
          HasKeys(call.response.body, "ethereum", MappedPriceKeys)
    /\ (CalledGas /\ ~IsException(call.returned)) =>
          HasKeys(call.response.body, "result", GasKeys)
    /\ (Called("fetch_defi_metrics")
          /\ ~(~call.response.neterr /\ call.response.status = 200
                 /\ HasKeys([b |-> call.response.body], "b", {"total"}))) =>
          "error" \in DOMAIN call.returned

\* C15: in fetch_recent_blocks the latest-block lookup has completed before
\* any block request is issued; the block requests go out one at a time for
\* latest, latest-1, ..., each settled before the next; the returned blocks
\* are in that descending order and are at most count.
C15_LookupThenDescending ==
    (~IsNone(call) /\ call.client = "fetch_recent_blocks") =>
       /\ call.inflight <= 1
       /\ call.requests[1] = LatestRequest
       /\ call.at = "latest" => (Len(call.requests) = 1 /\ call.inflight = 1)
       /\ call.at = "block" => call.inflight = 1
       /\ call.at \in {"loop", "done"} => call.inflight = 0
       /\ Len(call.requests) <= 1 + BlockCount
       /\ \A k \in 2..Len(call.requests) :
             call.requests[k] = BlockRequest(call.latest_block - (k - 2))
       /\ Len(call.blocks) <= Len(call.requests) - 1
       /\ \A j \in 1..(Len(call.blocks) - 1) :
             call.blocks[j].number > call.blocks[j + 1].number
       /\ (call.at = "done" /\ ~IsException(call.returned)) =>
             /\ call.returned.blocks = call.blocks
             /\ Len(call.returned.blocks) <= BlockCount
             /\ Len(call.requests) = 1 + BlockCount
       /\ call.at = "done" =>
             call.returned = fetch_recent_blocks(call.response, BlockCount)

\* Five block requests went out in descending order and one block was skipped.
C15_Witness ==
    /\ InBlocks("done")
    /\ ~IsException(call.returned)
    /\ Len(call.requests) = 1 + BlockCount
    /\ call.requests[2].tag = 18
    /\ call.requests[6].tag = 14
    /\ Len(call.returned.blocks) = 4
    /\ call.returned.blocks[1].number = 18
    /\ call.returned.blocks[4].number = 14

\* C21: every event handed to the sink carries a tag whose value is one of
\* the event types the update policies filter on.
C21_EventTypeTagged ==
    (variant = "hub" /\ pc = "in_send") =>
       \A j \in 1..Len(batch) :
          \E tag \in DOMAIN batch[j].properties :
             batch[j].properties[tag] \in PolicyEventTypes

\* C22: every call of fetch_ethereum_data returns: every source fetch settles
\* with a result or an error, and the cycle reaches its delivery step; a
\* collection stage of run_collection_cycle likewise returns or raises.
C22_CollectionReturns ==
    /\ (variant = "hub" /\ pc = "gather") ~> (pc = "send")
    /\ [](Built => \A i \in 1..5 : results[i] # Running)
    /\ (variant = "kusto" /\ pc = "collect_price")
          ~> (pc \in {"ingest_price", "backoff", "crashed"})

\* The network-stats requests got no answer and the cycle is at its delivery.
C22_Witness ==
    /\ Built
    /\ results[2] = Raise(NetErrMsg)
    /\ IsNone(data.network_stats)

IsQualityResult(e) == DOMAIN e = {"check", "status", "message"}
QualityStatuses == {"PASS", "FAIL", "ERROR"}
CheckNames == <<"freshness", "completeness", "consistency">>

\* C23: the list run_quality_checks returns holds only check results (check
\* name, status, message) with a status of PASS, FAIL or ERROR, one per
\* executed check.
C23_ListOfResults ==
    monitor.at = "returned" =>
       /\ \A j \in 1..Len(monitor.returned) :
             /\ IsQualityResult(monitor.returned[j])
             /\ monitor.returned[j].status \in QualityStatuses
       /\ Len(monitor.returned) = Len(monitor.checks)

\* what check number i returns for the query outcome q
CheckOf(i, q) ==
    CASE i = 1 -> check_data_freshness(q)
      [] i = 2 -> check_data_completeness(q)
      [] OTHER -> check_data_consistency(q)

\* C28: a check whose query raises returns an ERROR result for that check
\* only, the other checks still run, and run_quality_checks raises nothing
\* whatever combination of checks fails.
C28_ChecksIsolated ==
    /\ monitor.at # "idle" =>
          /\ Len(monitor.checks) = Len(monitor.queries)
          /\ \A i \in 1..Len(monitor.checks) :
                /\ monitor.checks[i] = CheckOf(i, monitor.queries[i])
                /\ monitor.checks[i].check = CheckNames[i]
                /\ monitor.checks[i].status \in QualityStatuses
                /\ IsException(monitor.queries[i]) =>
                      /\ monitor.checks[i].status = "ERROR"
                      /\ monitor.checks[i].message = monitor.queries[i].exc
                /\ (~IsException(monitor.queries[i])
                      /\ Len(monitor.queries[i].rows) > 0) =>
                      monitor.checks[i].status \in {"PASS", "FAIL"}
    /\ monitor.at \in {"return", "returned"} => Len(monitor.checks) = 3
    /\ monitor.at = "returned" =>
          /\ monitor.returned = monitor.results
          /\ monitor.returned[1] = monitor.checks[1]
          /\ monitor.returned[2] = monitor.checks[2]

\* The completeness query raised; freshness passed and consistency failed.
C28_Witness ==
    /\ monitor.at = "returned"
    /\ IsException(monitor.queries[2])
    /\ monitor.checks[1].status = "PASS"
    /\ monitor.checks[2].status = "ERROR"
    /\ monitor.checks[3].status = "FAIL"


\* C24: the connections checked out of the session's pool never exceed the
\* pool bound, and every connection a source acquires is released on every
\* path, so that between ticks no connection is checked out.
C24_PoolDrained ==
    /\ CheckedOut <= PoolLimit
    /\ pool.at = "idle" => CheckedOut = 0


\* the stages of run_collection_cycle and what may follow each of them
KustoStages == {"collect_price", "ingest_price", "collect_gas", "ingest_gas",
                "collect_transfers", "ingest_transfers"}
StageAfter(p) ==
    CASE p = "collect_price" -> {"ingest_price"}
      [] p = "ingest_price" -> {"collect_gas"}
      [] p = "collect_gas" -> {"ingest_gas"}
      [] p = "ingest_gas" -> {"collect_transfers"}
      [] p = "collect_transfers" ->
            {"ingest_transfers", "collect_transfers", "sleep", "exited"}
      [] p = "ingest_transfers" -> {"collect_transfers"}
Aborted == {"backoff", "crashed"}
RaisedSteps == {"collect_raised", "ingest_raised"}
\* the stage that ingests into a table, and the rows its collection makes
IngestStage(table) ==
    CASE table = "eth_price_raw" -> "ingest_price"
      [] table = "eth_gas_raw" -> "ingest_gas"
      [] table = "erc20_transfers_raw" -> "ingest_transfers"
CollectedFor(table, rows) ==
    /\ ~IsException(rows)
    /\ CASE table = "eth_price_raw" -> "price_usd" \in DOMAIN rows
         [] table = "eth_gas_raw" -> "safe_gas_price" \in DOMAIN rows
         [] table = "erc20_transfers_raw" ->
               "transfers" \in DOMAIN rows /\ Len(rows.transfers) > 0
KustoTables == {"eth_price_raw", "eth_gas_raw", "erc20_transfers_raw"}

\* C25: in collector_new.py's run_collection_cycle the stages run in the order
\* price collect, price ingest, gas collect, gas ingest, then per contract
\* transfers collect and transfers ingest; a stage that raises ends the cycle
\* with no further stage and no further ingestion; what was ingested stays
\* ingested; a table is ingested into only by its own stage, right after the
\* collection of its rows succeeded.
C25_StagesInOrder ==
    [][variant = "kusto" =>
         /\ pc \in {"loop", "single"} => pc' = "collect_price"
         /\ pc \in KustoStages => pc' \in StageAfter(pc) \cup Aborted
         /\ (pc \in KustoStages /\ steps'[Len(steps')] \in RaisedSteps) =>
               (pc' \in Aborted /\ ingested' = ingested)
         /\ (pc \in KustoStages /\ pc' \in Aborted) =>
               (steps'[Len(steps')] \in RaisedSteps /\ ingested' = ingested)
         /\ pc \in Aborted \cup {"sleep", "exited"} =>
               (pc' = "loop" /\ ingested' = ingested)
         /\ ingested \subseteq ingested'
         /\ ingested' # ingested =>
               \E table \in KustoTables :
                  /\ ingested' = ingested \cup {<<cycle, table>>}
                  /\ pc = IngestStage(table)
                  /\ steps[Len(steps)] = "collect"
                  /\ CollectedFor(table, data)]_vars
\* a cycle was aborted by the gas collection after the price was ingested,
\* and the price row is still there
C25_Witness ==
    /\ variant = "kusto"
    /\ pc = "backoff"
    /\ Len(steps) > 0
    /\ steps[Len(steps)] = "collect_raised"
    /\ <<cycle, "eth_price_raw">> \in ingested
    /\ <<cycle, "eth_gas_raw">> \notin ingested


\* the sources that raised, in source order
FailedInOrder(outcomes) ==
    SelectSeq(<<1, 2, 3, 4, 5>>, LAMBDA i : IsException(outcomes[i]))
GatherReturned == InGather /\ call.returned # Running

\* C26: the combined record does not depend on the order in which the
\* sources complete: slot i holds what source i returned (null if it raised)
\* and errors lists the messages of the sources that raised in the order
\* price, network stats, recent blocks, gas, DeFi; so the record is the one
\* any other order of completion gives for the same outcomes.
C26_OrderIndependent ==
    GatherReturned =>
       /\ \A i \in 1..5 : SlotOf(call.returned, i) = Slot(call.outcomes[i])
       /\ Len(call.returned.errors) = Len(FailedInOrder(call.outcomes))
       /\ \A j \in 1..Len(call.returned.errors) :
             call.returned.errors[j] =
                call.outcomes[FailedInOrder(call.outcomes)[j]].exc
       /\ \A order \in {o \in [1..5 -> 1..5] : Completed(o) = 1..5} :
             call.returned =
                CombinedData(GatherResults(call.outcomes, order), CallTime)
\* two sources raised with different messages and the later one in source
\* order completed first
C26_Witness ==
    /\ GatherReturned
    /\ \E a, b \in 1..5 :
          /\ a < b
          /\ IsException(call.outcomes[a])
          /\ IsException(call.outcomes[b])
          /\ call.outcomes[a] # call.outcomes[b]
          /\ \E j, k \in 1..5 : j < k /\ call.done[j] = b /\ call.done[k] = a


\* C27: whenever collector.py's "async with EthereumDataCollector(config)" is
\* left, by a normal end or by an error, the HTTP session is closed and the
\* producer client is not open.
C27_ScopeLeftClosed ==
    (variant = "hub" /\ pc \in {"crashed", "exited"}) =>
       (session = "closed" /\ producer_client # "open")

====
